---- MODULE Spec2Model ----
(***************************************************************************)
(* Markdown token tree -> Slack Block Kit blocks (parser/internal.ts).     *)
(*                                                                         *)
(* Strings are sequences of characters.  A character is a one-character    *)
(* TLA+ string, or the name of a code point outside ASCII ("U+2022" is the *)
(* bullet), so that the length of a sequence is the length of the          *)
(* JavaScript string it stands for.                                        *)
(***************************************************************************)
EXTENDS Integers, Sequences, FiniteSets, TLC

VARIABLES
  variant,       \* which converter runs: "permissive" or "strict" (internal.ts)
  tokens,        \* parseBlocks: the top-level token list (read only)
  i,             \* parseBlocks: the cursor
  resultBlocks,  \* parseBlocks: the accumulated blocks
  pc,            \* "loop" | "returned" | "threw"
  lastOp,        \* history: the branch the last loop iteration took
  lastI,         \* history: the cursor before the last loop iteration
  prevBlocks     \* history: resultBlocks before the last loop iteration

vars == <<variant, tokens, i, resultBlocks, pc, lastOp, lastI, prevBlocks>>

(***************************************************************************)
(* String helpers (JavaScript String and Array methods used by the code).  *)
(***************************************************************************)
NL == "\n"
SP == " "
BT == "U+0060"        \* the backtick
Bullet == "U+2022"    \* the list bullet
QuoteMark == "U+203A" \* the single right-pointing angle quotation mark
Glass == "U+1F50E"    \* the magnifying glass (one code point, two UTF-16 units)

RECURSIVE Concat(_)
\* Array.prototype.join('') over an array of strings
Concat(ss) == IF ss = <<>> THEN <<>> ELSE Head(ss) \o Concat(Tail(ss))

RECURSIVE JoinWith(_, _)
\* Array.prototype.join(sep)
JoinWith(ss, sep) ==
  IF ss = <<>> THEN <<>>
  ELSE IF Len(ss) = 1 THEN ss[1]
  ELSE ss[1] \o sep \o JoinWith(Tail(ss), sep)

RECURSIVE SplitFrom(_, _, _)
\* the pieces of s from position start on
SplitFrom(s, c, start) ==
  IF \A k \in start..Len(s) : s[k] # c
  THEN <<SubSeq(s, start, Len(s))>>
  ELSE LET sep == CHOOSE k \in start..Len(s) : s[k] = c /\ \A q \in start..(k - 1) : s[q] # c
       IN <<SubSeq(s, start, sep - 1)>> \o SplitFrom(s, c, sep + 1)

\* String.prototype.split(c) for a one-character separator
Split(s, c) == SplitFrom(s, c, 1)

\* String.prototype.replace(/c/g, r) for a one-character pattern
ReplaceChar(s, c, r) == JoinWith(Split(s, c), r)

\* String.prototype.replace(/[set]+/g, '')
RemoveChars(s, set) == SelectSeq(s, LAMBDA ch : ch \notin set)

\* String.prototype.repeat(n)
Repeat(s, n) == Concat([k \in 1..n |-> s])

WhiteSpace == {SP, NL, "\t"}

RECURSIVE TrimStart(_)
TrimStart(s) ==
  IF s # <<>> /\ Head(s) \in WhiteSpace THEN TrimStart(Tail(s)) ELSE s

RECURSIVE TrimEnd(_)
TrimEnd(s) ==
  IF s # <<>> /\ s[Len(s)] \in WhiteSpace THEN TrimEnd(SubSeq(s, 1, Len(s) - 1)) ELSE s

\* String.prototype.trim()
Trim(s) == TrimEnd(TrimStart(s))

Digits == <<"0", "1", "2", "3", "4", "5", "6", "7", "8", "9">>

RECURSIVE Decimal(_)
\* `${n}` for a non-negative integer
Decimal(n) ==
  IF n < 10 THEN <<Digits[n + 1]>>
  ELSE Decimal(n \div 10) \o <<Digits[(n % 10) + 1]>>

StartsWith(s, p) == Len(s) >= Len(p) /\ SubSeq(s, 1, Len(p)) = p

\* String.prototype.includes(c) for a one-character needle
Includes(s, c) == \E k \in 1..Len(s) : s[k] = c

(***************************************************************************)
(* Block constructors (../slack).                                          *)
(***************************************************************************)
\* undefined: a value no string equals (its one element is no character)
Undefined == <<"undefined">>

section(text) == [type |-> "section", text |-> text]
divider == [type |-> "divider"]
header(text) == [type |-> "header", text |-> text]
image(url, alt, title) == [type |-> "image", image_url |-> url, alt_text |-> alt, title |-> title]

isSectionBlock(block) == block.type = "section"

(***************************************************************************)
(* Phrasing renderer.                                                      *)
(***************************************************************************)
\* .replace(/&/g,'&amp;').replace(/</g,'&lt;').replace(/>/g,'&gt;')
escapeEntities(raw) ==
  ReplaceChar(ReplaceChar(ReplaceChar(raw, "&", <<"&", "a", "m", "p", ";">>),
                          "<", <<"&", "l", "t", ";">>),
              ">", <<"&", "g", "t", ";">>)

RECURSIVE parseMrkdwn(_)
parseMrkdwn(element) ==
  CASE element.type = "link" ->
         <<"<">> \o element.href \o <<"|">>
           \o Concat([k \in 1..Len(element.tokens) |-> parseMrkdwn(element.tokens[k])])
           \o <<">">>
    [] element.type = "em" -> <<"_">> \o element.text \o <<"_">>
    [] element.type = "codespan" -> <<BT>> \o element.text \o <<BT>>
    [] element.type = "strong" -> <<"*">> \o element.text \o <<"*">>
    [] element.type \in {"text", "html"} -> escapeEntities(element.raw)
    [] element.type = "del" -> <<"~">> \o element.text \o <<"~">>
    [] OTHER -> <<>>


\* .replace(/\*+/g,'').replace(/_+/g,'').replace(/~+/g,'').replace(/`+/g,'')
stripFormatting(raw) ==
  RemoveChars(RemoveChars(RemoveChars(RemoveChars(raw, {"*"}), {"_"}), {"~"}), {BT})

\* element.title ?? element.href
titleOrHref(element) == IF element.title # Undefined THEN element.title ELSE element.href

RECURSIVE parseHeaderPlainText(_)
\* Returns the array of strings the function returns.
parseHeaderPlainText(element) ==
  CASE element.type = "link" ->
         << Concat(Concat([k \in 1..Len(element.tokens) |->
                             parseHeaderPlainText(element.tokens[k])]))
            \o <<SP, "(">> \o element.href \o <<")">> >>
    [] element.type \in {"em", "strong", "del"} ->
         Concat([k \in 1..Len(element.tokens) |-> parseHeaderPlainText(element.tokens[k])])
    [] element.type = "br" -> <<>>
    [] element.type = "image" -> <<titleOrHref(element)>>
    [] element.type \in {"codespan", "text", "html"} -> <<stripFormatting(element.raw)>>

\* element.href ?? element.title ?? element.text ?? 'image'
imageLiteral(element) ==
  IF element.href # Undefined THEN element.href
  ELSE IF element.title # Undefined THEN element.title
  ELSE IF element.text # Undefined THEN element.text
  ELSE <<"i", "m", "a", "g", "e">>

\* The string parsePhrasingContentToStrings pushes onto its accumulator.
parsePhrasingContentToStrings(element) ==
  IF element.type = "image" THEN imageLiteral(element) ELSE parseMrkdwn(element)

(***************************************************************************)
(* Paragraph converter.                                                    *)
(***************************************************************************)
\* '**출처:**'
SourcesMarker == <<"*", "*", "U+CD9C", "U+CC98", ":", "*", "*">>
\* '*출처:*'
SourcesBoldLabel == <<"*", "U+CD9C", "U+CC98", ":", "*">>
\* '출처'
SourcesLabel == <<"U+CD9C", "U+CC98">>

isSourcesMarker(element) == Trim(element.raw) = SourcesMarker

\* token => token.type === 'link' ? `<${token.href}|${token.text}>` : token.raw
paragraphChildText(token) ==
  IF token.type = "link"
  THEN <<"<">> \o token.href \o <<"|">> \o token.text \o <<">">>
  ELSE token.raw

\* parseParagraph without the early return on an empty text
parseParagraphKeepEmpty(element) ==
  IF isSourcesMarker(element)
  THEN <<divider, section(SourcesBoldLabel)>>
  ELSE <<section(RemoveChars(
                   Concat([k \in 1..Len(element.tokens) |->
                             paragraphChildText(element.tokens[k])]),
                   {"*", "_", "~"}))>>

parseParagraph(element) ==
  IF isSourcesMarker(element)
  THEN <<divider, section(SourcesBoldLabel)>>
  ELSE LET text == RemoveChars(
                     Concat([k \in 1..Len(element.tokens) |->
                               paragraphChildText(element.tokens[k])]),
                     {"*", "_", "~"})
       IN IF text = <<>> THEN <<>> ELSE <<section(text)>>


(***************************************************************************)
(* Heading converter.                                                      *)
(***************************************************************************)
\* [ -~]
AsciiPrintable ==
  {SP, "!", "\"", "#", "$", "%", "&", "'", "(", ")", "*", "+", ",", "-", ".", "/",
   "0", "1", "2", "3", "4", "5", "6", "7", "8", "9", ":", ";", "<", "=", ">", "?", "@",
   "A", "B", "C", "D", "E", "F", "G", "H", "I", "J", "K", "L", "M", "N", "O", "P", "Q",
   "R", "S", "T", "U", "V", "W", "X", "Y", "Z", "[", "\\", "]", "^", "_", BT,
   "a", "b", "c", "d", "e", "f", "g", "h", "i", "j", "k", "l", "m", "n", "o", "p", "q",
   "r", "s", "t", "u", "v", "w", "x", "y", "z", "{", "|", "}", "~"}

\* [가-힯㄰-㆏], as far as the model's characters go
Hangul == {"U+CD9C", "U+CC98"}

\* /[^ -~가-힯㄰-㆏]/.test(text)
hasNonAlphabetOrKorean(text) ==
  \E k \in 1..Len(text) : text[k] \notin AsciiPrintable \cup Hangul

\* (?<!<[^>]*) at position p: no '<' before p with only non-'>' up to p
notInsideOpenAngle(s, p) ==
  ~ \E q \in 1..(p - 1) : s[q] = "<" /\ \A t \in (q + 1)..(p - 1) : s[t] # ">"

\* (?![^<]*>) after position r: no '>' after r with only non-'<' in between
notBeforeCloseAngle(s, r) ==
  ~ \E t \in (r + 1)..Len(s) : s[t] = ">" /\ \A u \in (r + 1)..(t - 1) : s[u] # "<"

\* The closing positions \*(.*?)\* can reach from an opening star at p.
boldClosers(s, p) ==
  {r \in (p + 1)..Len(s) :
     /\ s[r] = "*"
     /\ \A t \in (p + 1)..(r - 1) : s[t] # NL
     /\ notBeforeCloseAngle(s, r)}

Min(S) == CHOOSE x \in S : \A y \in S : x <= y

RECURSIVE stripBoldFrom(_, _)
stripBoldFrom(s, p) ==
  IF p > Len(s) THEN <<>>
  ELSE IF s[p] = "*" /\ notInsideOpenAngle(s, p) /\ boldClosers(s, p) # {}
       THEN LET r == Min(boldClosers(s, p))
            IN SubSeq(s, p + 1, r - 1) \o stripBoldFrom(s, r + 1)
       ELSE <<s[p]>> \o stripBoldFrom(s, p + 1)

\* .replace(/(?<!<[^>]*)\*(.*?)\*(?![^<]*>)/g, '$1')
stripBold(s) == stripBoldFrom(s, 1)

\* element.tokens.map(parseMrkdwn).join('')
headingMrkdwn(element) ==
  Concat([k \in 1..Len(element.tokens) |-> parseMrkdwn(element.tokens[k])])

parseHeading(element) ==
  CASE element.depth = 1 ->
         LET h1Text == Concat(Concat([k \in 1..Len(element.tokens) |->
                                        parseHeaderPlainText(element.tokens[k])]))
         IN IF hasNonAlphabetOrKorean(h1Text)
            THEN <<header(h1Text)>>
            ELSE <<header(<<Glass, SP>> \o h1Text)>>
    [] element.depth = 2 -> <<divider, header(headingMrkdwn(element))>>
    [] OTHER ->
         <<section(<<QuoteMark, SP, "*">> \o stripBold(headingMrkdwn(element)) \o <<"*">>)>>

(***************************************************************************)
(* Code and blockquote converters.                                         *)
(***************************************************************************)
parseCode(element) ==
  section(<<BT, BT, BT, NL>> \o element.text \o <<NL, BT, BT, BT>>)

\* '> ' + text.replace(/\n/g, '\n> ') on a Section whose text has a newline
quoteBlock(block) ==
  IF isSectionBlock(block) /\ Includes(block.text, NL)
  THEN [block EXCEPT !.text = <<">", SP>> \o ReplaceChar(block.text, NL, <<NL, ">", SP>>)]
  ELSE block

parseBlockquote(element) ==
  LET paragraphs == SelectSeq(element.tokens, LAMBDA child : child.type = "paragraph")
  IN Concat([k \in 1..Len(paragraphs) |->
       LET blocks == parseParagraph(paragraphs[k])
       IN [b \in 1..Len(blocks) |-> quoteBlock(blocks[b])]])


(***************************************************************************)
(* List renderer.                                                          *)
(***************************************************************************)
\* (b as SectionBlock).text?.text || ''
blockText(b) == IF "text" \in DOMAIN b THEN b.text ELSE <<>>

\* case 'text': the strings of the non-image children, joined; nothing is
\* pushed when there is no such child
textItemBlocks(token) ==
  LET textTokens == IF "tokens" \in DOMAIN token THEN token.tokens ELSE <<token>>
      kept == SelectSeq(textTokens, LAMBDA child : child.type # "image")
  IN IF Len(kept) > 0
     THEN <<Concat([k \in 1..Len(kept) |-> parseMrkdwn(kept[k])])>>
     ELSE <<>>

\* '  '.repeat(depth)
listIndent(depth) == Repeat(<<SP, SP>>, depth)

\* indent + (element.ordered ? `${++listIndex}. ` : '• '); listIndex is the
\* counter after the increment
listPrefixPostIncrement(ordered, listIndex, depth) ==
  listIndent(depth) \o (IF ordered THEN Decimal(listIndex - 1) \o <<".", SP>> ELSE <<Bullet, SP>>)

listPrefix(ordered, listIndex, depth) ==
  listIndent(depth) \o (IF ordered THEN Decimal(listIndex) \o <<".", SP>> ELSE <<Bullet, SP>>)

\* the counter after an item: ++listIndex runs for ordered lists only
nextListIndexPerBlock(ordered, listIndex, itemBlocks) ==
  IF ordered THEN listIndex + Len(itemBlocks) ELSE listIndex

nextListIndex(ordered, listIndex, itemBlocks) ==
  IF ordered THEN listIndex + 1 ELSE listIndex

\* prefix.replace(/./g, ' ')
multiLinePrefix(prefix) == [k \in 1..Len(prefix) |-> SP]

\* itemContent.split('\n').join(`\n${multiLinePrefix}`)
indentContent(itemContent, prefix) ==
  JoinWith(Split(itemContent, NL), <<NL>> \o multiLinePrefix(prefix))

RECURSIVE parseList(_, _)
RECURSIVE listItemBlocks(_, _)
RECURSIVE listContents(_, _, _, _)

\* contents.join('\n'), with a blank line between the items
parseListBlankLines(element, depth) ==
  section(JoinWith(listContents(element, depth, 1, 0), <<NL, NL>>))

\* One child token of a list item: the strings it pushes onto itemBlocks.
listItemBlocks(token, depth) ==
  CASE token.type = "paragraph" ->
         LET paragraphBlocks == parseParagraph(token)
             blockContent == Concat([k \in 1..Len(paragraphBlocks) |->
                                       blockText(paragraphBlocks[k])])
         IN IF blockContent # <<>> THEN <<blockContent>> ELSE <<>>
    [] token.type = "text" -> textItemBlocks(token)
    [] token.type = "list" ->
         LET nestedListBlock == parseList(token, depth + 1)
         IN IF nestedListBlock.text # <<>> THEN <<nestedListBlock.text>> ELSE <<>>
    [] token.type = "code" -> <<parseCode(token).text>>
    [] token.type = "blockquote" ->
         LET bqBlocks == parseBlockquote(token)
             blockContent == JoinWith([k \in 1..Len(bqBlocks) |-> blockText(bqBlocks[k])],
                                      <<NL>>)
         IN IF blockContent # <<>> THEN <<blockContent>> ELSE <<>>
    [] OTHER -> <<>>

\* element.items.map(...) from item idx on, with the counter at listIndex
listContents(element, depth, idx, listIndex) ==
  IF idx > Len(element.items) THEN <<>>
  ELSE LET item == element.items[idx]
           itemBlocks == Concat([k \in 1..Len(item.tokens) |->
                                   listItemBlocks(item.tokens[k], depth)])
           counter == nextListIndex(element.ordered, listIndex, itemBlocks)
           prefix == listPrefix(element.ordered, counter, depth)
           itemContent == JoinWith(itemBlocks, <<NL>>)
       IN <<prefix \o indentContent(itemContent, prefix)>>
            \o listContents(element, depth, idx + 1, counter)

parseList(element, depth) ==
  section(JoinWith(listContents(element, depth, 1, 0), <<NL>>))

(***************************************************************************)
(* Table converter.                                                        *)
(***************************************************************************)
combineBetweenPipes(texts) == <<"|", SP>> \o JoinWith(texts, <<SP, "|", SP>>) \o <<SP, "|">>

parseTableCell(cell) ==
  JoinWith([k \in 1..Len(cell.tokens) |-> parsePhrasingContentToStrings(cell.tokens[k])],
           <<SP>>)

parseTableRow(row) == [k \in 1..Len(row) |-> parseTableCell(row[k])]

\* rows.forEach((row, index) => ...): index is zero-based, idx is index + 1
separatorBeforeRow(idx) == idx - 1 = 1

RECURSIVE parseTableRowsFrom(_, _)
parseTableRowsFrom(rows, idx) ==
  IF idx > Len(rows) THEN <<>>
  ELSE LET parsedCells == parseTableRow(rows[idx])
           headerRow == combineBetweenPipes([k \in 1..Len(parsedCells) |-> <<"-", "-", "-">>])
       IN (IF separatorBeforeRow(idx) THEN <<headerRow>> ELSE <<>>)
            \o <<combineBetweenPipes(parsedCells)>>
            \o parseTableRowsFrom(rows, idx + 1)

parseTableRows(rows) == parseTableRowsFrom(rows, 1)

parseTable(element) ==
  LET parsedRows == parseTableRows(<<element.header>> \o element.rows)
  IN section(<<BT, BT, BT, NL>> \o JoinWith(parsedRows, <<NL>>) \o <<NL, BT, BT, BT>>)

(***************************************************************************)
(* Thematic break, raw HTML, token classifier.                             *)
(***************************************************************************)
parseThematicBreak == <<>>

\* parser.parse(element.raw) of fast-xml-parser: the token carries what the
\* parse does with its raw text (element.xml.throws) and, when it returns,
\* the value of res.img (element.xml.img; no such field when res.img is falsy).
parseHTMLThrows(element) == element.xml.throws

\* image(url, img['@_alt'] || url)
imgBlock(img) ==
  LET url == img.src
  IN image(url, IF img.alt \in {Undefined, <<>>} THEN url ELSE img.alt, Undefined)

parseHTML(element) ==
  LET res == element.xml
  IN IF "img" \in DOMAIN res
     THEN LET tags == IF res.isArray THEN res.img ELSE <<res.img>>
          IN [k \in 1..Len(tags) |-> imgBlock(tags[k])]
     ELSE <<>>

parseTokenDefaultRaw(token) == <<section(<<"?">>)>>

parseTokenDefault(token) == <<>>

parseToken(token) ==
  CASE token.type = "heading" -> parseHeading(token)
    [] token.type = "paragraph" -> parseParagraph(token)
    [] token.type = "code" -> <<parseCode(token)>>
    [] token.type = "blockquote" -> parseBlockquote(token)
    [] token.type = "list" -> <<parseList(token, 0)>>
    [] token.type = "table" -> <<parseTable(token)>>
    [] token.type = "hr" -> parseThematicBreak
    [] token.type = "html" -> parseHTML(token)
    [] OTHER -> parseTokenDefault(token)


(***************************************************************************)
(* The second converter of the repository, src/parser/internal.ts: the     *)
(* same pipeline with recursive mrkdwn rendering, paragraphs folded        *)
(* through the merge rule, and no sources rule.                            *)
(***************************************************************************)
RECURSIVE parsePlainText_internal(_)
parsePlainText_internal(element) ==
  CASE element.type \in {"link", "em", "strong", "del"} ->
         Concat([k \in 1..Len(element.tokens) |-> parsePlainText_internal(element.tokens[k])])
    [] element.type = "br" -> <<>>
    [] element.type = "image" -> <<titleOrHref(element)>>
    [] element.type \in {"codespan", "text", "html"} -> <<element.raw>>

RECURSIVE parseMrkdwn_internal(_)
\* element.tokens.flatMap(child => parseMrkdwn(child)).join('')
mrkdwnChildren_internal(element) ==
  Concat([k \in 1..Len(element.tokens) |-> parseMrkdwn_internal(element.tokens[k])])

parseMrkdwn_internal(element) ==
  CASE element.type = "link" ->
         <<"<">> \o element.href \o <<"|">> \o mrkdwnChildren_internal(element) \o <<">", SP>>
    [] element.type = "em" -> <<"_">> \o mrkdwnChildren_internal(element) \o <<"_">>
    [] element.type = "codespan" -> <<BT>> \o element.text \o <<BT>>
    [] element.type = "strong" -> <<"*">> \o mrkdwnChildren_internal(element) \o <<"*">>
    [] element.type = "text" -> element.text
    [] element.type = "del" -> <<"~">> \o mrkdwnChildren_internal(element) \o <<"~">>
    [] OTHER -> <<>>

\* addMrkdwn that opens a new Section for every text
addMrkdwnAlwaysPush(content, accumulator) == Append(accumulator, section(content))

\* The accumulator after addMrkdwn(content, accumulator).
addMrkdwn_internal(content, accumulator) ==
  IF accumulator # <<>> /\ isSectionBlock(accumulator[Len(accumulator)])
  THEN [accumulator EXCEPT ![Len(accumulator)].text = @ \o content]
  ELSE Append(accumulator, section(content))

\* element.text || element.title || element.href
imageAlt(element) ==
  IF element.text \notin {Undefined, <<>>} THEN element.text
  ELSE IF element.title \notin {Undefined, <<>>} THEN element.title
  ELSE element.href

\* The accumulator after parsePhrasingContent(element, accumulator).
parsePhrasingContent_internal(element, accumulator) ==
  IF element.type = "image"
  THEN Append(accumulator, image(element.href, imageAlt(element), element.title))
  ELSE addMrkdwn_internal(parseMrkdwn_internal(element), accumulator)

RECURSIVE reducePhrasing_internal(_, _, _)
\* element.tokens.reduce(...) from child k on
reducePhrasing_internal(children, k, accumulator) ==
  IF k > Len(children) THEN accumulator
  ELSE reducePhrasing_internal(children, k + 1,
                               parsePhrasingContent_internal(children[k], accumulator))

parseParagraph_internal(element) == reducePhrasing_internal(element.tokens, 1, <<>>)

parsePhrasingContentToStrings_internal(element) ==
  IF element.type = "image" THEN imageLiteral(element) ELSE parseMrkdwn_internal(element)

\* element.tokens.filter(child => child.type !== 'image').map(parseMrkdwn).join('')
headingMrkdwn_internal(element) ==
  LET kept == SelectSeq(element.tokens, LAMBDA child : child.type # "image")
  IN Concat([k \in 1..Len(kept) |-> parseMrkdwn_internal(kept[k])])

parseHeading_internal(element) ==
  CASE element.depth = 1 ->
         <<header(Concat(Concat([k \in 1..Len(element.tokens) |->
                                   parsePlainText_internal(element.tokens[k])])))>>
    [] element.depth = 2 ->
         <<divider, section(<<"*">> \o headingMrkdwn_internal(element) \o <<"*">>)>>
    [] OTHER -> <<section(<<QuoteMark, SP>> \o headingMrkdwn_internal(element))>>

parseCode_internal(element) ==
  section(<<BT, BT, BT, NL>> \o element.text \o <<NL, BT, BT, BT>>)

parseBlockquote_internal(element) ==
  LET paragraphs == SelectSeq(element.tokens, LAMBDA child : child.type = "paragraph")
  IN Concat([k \in 1..Len(paragraphs) |->
       LET blocks == parseParagraph_internal(paragraphs[k])
       IN [b \in 1..Len(blocks) |->
             IF isSectionBlock(blocks[b]) /\ Includes(blocks[b].text, NL)
             THEN [blocks[b] EXCEPT
                     !.text = <<">", SP>> \o ReplaceChar(blocks[b].text, NL, <<NL, ">", SP>>)]
             ELSE blocks[b]]])

RECURSIVE parseList_internal(_, _)
RECURSIVE listItemBlocks_internal(_, _)
RECURSIVE listContents_internal(_, _, _, _)

listItemBlocks_internal(token, depth) ==
  CASE token.type = "paragraph" ->
         LET paragraphBlocks == parseParagraph_internal(token)
             blockContent == Concat([k \in 1..Len(paragraphBlocks) |->
                                       blockText(paragraphBlocks[k])])
         IN IF blockContent # <<>> THEN <<blockContent>> ELSE <<>>
    [] token.type = "text" -> IF token.text # <<>> THEN <<token.text>> ELSE <<>>
    [] token.type = "list" ->
         LET nestedListBlock == parseList_internal(token, depth + 1)
         IN IF nestedListBlock.text # <<>> THEN <<nestedListBlock.text>> ELSE <<>>
    [] token.type = "code" -> <<parseCode_internal(token).text>>
    [] token.type = "blockquote" ->
         LET bqBlocks == parseBlockquote_internal(token)
             blockContent == JoinWith([k \in 1..Len(bqBlocks) |-> blockText(bqBlocks[k])],
                                      <<NL>>)
         IN IF blockContent # <<>> THEN <<blockContent>> ELSE <<>>
    [] OTHER -> <<>>

listContents_internal(element, depth, idx, listIndex) ==
  IF idx > Len(element.items) THEN <<>>
  ELSE LET item == element.items[idx]
           itemBlocks == Concat([k \in 1..Len(item.tokens) |->
                                   listItemBlocks_internal(item.tokens[k], depth)])
           counter == IF element.ordered THEN listIndex + 1 ELSE listIndex
           prefix == Repeat(<<SP, SP>>, depth)
                       \o (IF element.ordered THEN Decimal(counter) \o <<".", SP>>
                           ELSE <<Bullet, SP>>)
           itemContent == JoinWith(itemBlocks, <<NL>>)
           indentedContent == JoinWith(Split(itemContent, NL),
                                       <<NL>> \o [k \in 1..Len(prefix) |-> SP])
       IN <<prefix \o indentedContent>>
            \o listContents_internal(element, depth, idx + 1, counter)

parseList_internal(element, depth) ==
  section(JoinWith(listContents_internal(element, depth, 1, 0), <<NL>>))

RECURSIVE parseTableRowsFrom_internal(_, _)
parseTableRowsFrom_internal(rows, idx) ==
  IF idx > Len(rows) THEN <<>>
  ELSE LET parsedCells ==
             [c \in 1..Len(rows[idx]) |->
                JoinWith([k \in 1..Len(rows[idx][c].tokens) |->
                            parsePhrasingContentToStrings_internal(rows[idx][c].tokens[k])],
                         <<SP>>)]
           headerRow == combineBetweenPipes([k \in 1..Len(parsedCells) |-> <<"-", "-", "-">>])
       IN (IF idx - 1 = 1 THEN <<headerRow>> ELSE <<>>)
            \o <<combineBetweenPipes(parsedCells)>>
            \o parseTableRowsFrom_internal(rows, idx + 1)

parseTable_internal(element) ==
  LET parsedRows == parseTableRowsFrom_internal(<<element.header>> \o element.rows, 1)
  IN section(<<BT, BT, BT, NL>> \o JoinWith(parsedRows, <<NL>>) \o <<NL, BT, BT, BT>>)

parseHTML_internal(element) ==
  LET res == element.xml
  IN IF "img" \in DOMAIN res
     THEN LET tags == IF res.isArray THEN res.img ELSE <<res.img>>
          IN [k \in 1..Len(tags) |-> imgBlock(tags[k])]
     ELSE <<>>

parseToken_internal(token) ==
  CASE token.type = "heading" -> parseHeading_internal(token)
    [] token.type = "paragraph" -> parseParagraph_internal(token)
    [] token.type = "code" -> <<parseCode_internal(token)>>
    [] token.type = "blockquote" -> parseBlockquote_internal(token)
    [] token.type = "list" -> <<parseList_internal(token, 0)>>
    [] token.type = "table" -> <<parseTable_internal(token)>>
    [] token.type = "hr" -> <<divider>>
    [] token.type = "html" -> parseHTML_internal(token)
    [] OTHER -> <<>>

(***************************************************************************)
(* Document assembler: parseBlocks, one action per loop iteration.         *)
(* The cursor i is zero-based as in the code: tokens[i] is tokenAt(i).     *)
(***************************************************************************)
\* tokens[k]?.type
typeIn(toks, k) == IF k < Len(toks) THEN toks[k + 1].type ELSE "undefined"

\* token.type === 'paragraph' && token.raw.trim() === '**출처:**'
sourcesMarkerIn(toks, k) ==
  k < Len(toks) /\ toks[k + 1].type = "paragraph" /\ isSourcesMarker(toks[k + 1])

\* let nextTokenIndex = i + 1; if (tokens[nextTokenIndex]?.type === 'space') nextTokenIndex++
nextTokenIndexIn(toks, k) == IF typeIn(toks, k + 1) = "space" THEN k + 2 ELSE k + 1

tokenAt(k) == tokens[k + 1]
typeAt(k) == typeIn(tokens, k)
atSourcesMarker(k) == sourcesMarkerIn(tokens, k)
nextTokenIndex(k) == nextTokenIndexIn(tokens, k)

Record(op) ==
  /\ lastOp' = op
  /\ lastI' = i
  /\ prevBlocks' = resultBlocks

\* the sources unit, with the cursor moved past the marker only
SourcesWithListNoSkip ==
  /\ variant = "permissive"
  /\ pc = "loop"
  /\ atSourcesMarker(i)
  /\ typeAt(nextTokenIndex(i)) = "list"
  /\ resultBlocks' = resultBlocks \o <<divider, header(SourcesLabel)>>
                       \o <<parseList(tokenAt(nextTokenIndex(i)), 0)>>
  /\ i' = i + 1
  /\ Record("sources_list")
  /\ UNCHANGED <<variant, tokens, pc>>

SourcesWithList ==
  /\ variant = "permissive"
  /\ pc = "loop"
  /\ atSourcesMarker(i)
  /\ typeAt(nextTokenIndex(i)) = "list"
  /\ resultBlocks' = resultBlocks \o <<divider, header(SourcesLabel)>>
                       \o <<parseList(tokenAt(nextTokenIndex(i)), 0)>>
  /\ i' = nextTokenIndex(i) + 1
  /\ Record("sources_list")
  /\ UNCHANGED <<variant, tokens, pc>>

SourcesOnly ==
  /\ variant = "permissive"
  /\ pc = "loop"
  /\ atSourcesMarker(i)
  /\ typeAt(nextTokenIndex(i)) # "list"
  /\ resultBlocks' = resultBlocks \o <<divider, header(SourcesLabel)>>
  /\ i' = i + 1
  /\ Record("sources_only")
  /\ UNCHANGED <<variant, tokens, pc>>

\* whether parseToken(token) throws: only parseHTML can
parseTokenThrows(token) == token.type = "html" /\ parseHTMLThrows(token)

Dispatch ==
  /\ variant = "permissive"
  /\ pc = "loop"
  /\ i < Len(tokens)
  /\ ~atSourcesMarker(i)
  /\ ~parseTokenThrows(tokenAt(i))
  /\ resultBlocks' = resultBlocks \o parseToken(tokenAt(i))
  /\ i' = i + 1
  /\ Record("dispatch")
  /\ UNCHANGED <<variant, tokens, pc>>

\* The exception of parser.parse leaves parseBlocks: nothing is returned.
DispatchThrows ==
  /\ variant = "permissive"
  /\ pc = "loop"
  /\ i < Len(tokens)
  /\ ~atSourcesMarker(i)
  /\ parseTokenThrows(tokenAt(i))
  /\ pc' = "threw"
  /\ Record("throw")
  /\ UNCHANGED <<variant, tokens, i, resultBlocks>>

Return ==
  /\ variant = "permissive"
  /\ pc = "loop"
  /\ i >= Len(tokens)
  /\ pc' = "returned"
  /\ UNCHANGED <<variant, tokens, i, resultBlocks, lastOp, lastI, prevBlocks>>

\* internal.ts, parseBlocks: tokens.flatMap(token => parseToken(token, options)),
\* one action per call of the callback.
FlatMapToken ==
  /\ variant = "strict"
  /\ pc = "loop"
  /\ i < Len(tokens)
  /\ ~parseTokenThrows(tokenAt(i))
  /\ resultBlocks' = resultBlocks \o parseToken_internal(tokenAt(i))
  /\ i' = i + 1
  /\ Record("dispatch")
  /\ UNCHANGED <<variant, tokens, pc>>

FlatMapThrows ==
  /\ variant = "strict"
  /\ pc = "loop"
  /\ i < Len(tokens)
  /\ parseTokenThrows(tokenAt(i))
  /\ pc' = "threw"
  /\ Record("throw")
  /\ UNCHANGED <<variant, tokens, i, resultBlocks>>

FlatMapReturn ==
  /\ variant = "strict"
  /\ pc = "loop"
  /\ i >= Len(tokens)
  /\ pc' = "returned"
  /\ UNCHANGED <<variant, tokens, i, resultBlocks, lastOp, lastI, prevBlocks>>

\* whether parseToken(token) throws for a token the loop dispatches; the
\* sources unit skips space and list tokens only
parseBlocksThrows(toks) == \E k \in 1..Len(toks) : parseTokenThrows(toks[k])

RECURSIVE parseBlocksFrom(_, _)
\* The value parseBlocks(toks) returns, as one function of the token list:
\* the loop from cursor k on, when no token throws.
parseBlocksFrom(toks, k) ==
  IF k >= Len(toks) THEN <<>>
  ELSE IF sourcesMarkerIn(toks, k)
       THEN <<divider, header(SourcesLabel)>>
              \o (IF typeIn(toks, nextTokenIndexIn(toks, k)) = "list"
                  THEN <<parseList(toks[nextTokenIndexIn(toks, k) + 1], 0)>>
                         \o parseBlocksFrom(toks, nextTokenIndexIn(toks, k) + 1)
                  ELSE parseBlocksFrom(toks, k + 1))
       ELSE parseToken(toks[k + 1]) \o parseBlocksFrom(toks, k + 1)


(***************************************************************************)
(* Input: token trees as marked produces them.                             *)
(***************************************************************************)
MaxTokens == 3        \* top-level tokens of a mixed document
MaxItems == 2         \* items of one list
MaxDepth == 2         \* nesting depth of the innermost list
MaxRows == 2          \* body rows of a table
MaxCols == 2          \* columns of a table
MaxLinkChildren == 2  \* phrasing children of a link
MaxChildren == 4      \* phrasing children of a paragraph

\* Inline text: marked escapes the text of an inline text token, raw is the source.
Text(s) == [type |-> "text", raw |-> s, text |-> escapeEntities(s)]
Em(s) == [type |-> "em", raw |-> <<"_">> \o s \o <<"_">>, text |-> s, tokens |-> <<Text(s)>>]
Strong(s) ==
  [type |-> "strong", raw |-> <<"*", "*">> \o s \o <<"*", "*">>, text |-> s,
   tokens |-> <<Text(s)>>]
Del(s) == [type |-> "del", raw |-> <<"~">> \o s \o <<"~">>, text |-> s, tokens |-> <<Text(s)>>]
Codespan(s) == [type |-> "codespan", raw |-> <<BT>> \o s \o <<BT>>, text |-> escapeEntities(s)]
Br == [type |-> "br", raw |-> <<SP, SP, NL>>]
Image(href, text, title) ==
  [type |-> "image", raw |-> <<"!", "[">> \o text \o <<"]", "(">> \o href \o <<")">>,
   href |-> href, text |-> text, title |-> title]
Link(href, children) ==
  LET inner == Concat([k \in 1..Len(children) |-> children[k].raw])
  IN [type |-> "link", raw |-> <<"[">> \o inner \o <<"]", "(">> \o href \o <<")">>,
      href |-> href, text |-> inner, tokens |-> children]

\* Block tokens
Paragraph(children) ==
  [type |-> "paragraph", raw |-> Concat([k \in 1..Len(children) |-> children[k].raw]),
   tokens |-> children]
RawParagraph(raw, children) == [type |-> "paragraph", raw |-> raw, tokens |-> children]
Space == [type |-> "space", raw |-> <<NL, NL>>]
TextBlock(children) ==
  [type |-> "text", raw |-> Concat([k \in 1..Len(children) |-> children[k].raw]),
   text |-> Concat([k \in 1..Len(children) |-> children[k].raw]), tokens |-> children]
Code(s) == [type |-> "code", raw |-> <<BT, BT, BT, NL>> \o s \o <<NL, BT, BT, BT>>, text |-> s]
Blockquote(children) == [type |-> "blockquote", tokens |-> children]
Heading(depth, children) == [type |-> "heading", depth |-> depth, tokens |-> children]
Hr == [type |-> "hr", raw |-> <<"-", "-", "-">>]
Def == [type |-> "def", raw |-> <<"[", "x", "]", ":", SP, "u">>]
List(ordered, items) == [type |-> "list", ordered |-> ordered, items |-> items]
ListItem(children) == [type |-> "list_item", tokens |-> children]
Table(hdr, rows) == [type |-> "table", header |-> hdr, rows |-> rows]
Cell(children) == [tokens |-> children]
HtmlThrows(raw) == [type |-> "html", raw |-> raw, xml |-> [throws |-> TRUE]]
HtmlNoImg(raw) == [type |-> "html", raw |-> raw, xml |-> [throws |-> FALSE]]
HtmlImg(raw, img) ==
  [type |-> "html", raw |-> raw, xml |-> [throws |-> FALSE, isArray |-> FALSE, img |-> img]]
HtmlImgs(raw, imgs) ==
  [type |-> "html", raw |-> raw, xml |-> [throws |-> FALSE, isArray |-> TRUE, img |-> imgs]]


\* Sequences over S of length lo..hi
SeqsOf(S, lo, hi) == UNION {[1..n -> S] : n \in lo..hi}

\* Inline strings: plain, and with the characters mrkdwn reserves
InlineStrings == {<<"a">>, <<"a", "&", "b">>, <<"<", "b", ">">>}

LinkChildren ==
  {Text(s) : s \in InlineStrings}
    \cup {Em(<<"a">>), Strong(<<"a", "&", "b">>), Del(<<"a", "<", "b">>), Codespan(<<"a">>)}

Href == <<"h", ":", "u">>

Links == {Link(Href, c) : c \in SeqsOf(LinkChildren, 1, MaxLinkChildren)}

HeadingDepths == {1, 2, 3, 4}

HeadingTokens ==
  {Heading(2, <<l>>) : l \in Links}
    \cup {Heading(d, c) : d \in HeadingDepths,
                          c \in {<<Text(<<"H", "i">>)>>,
                                 <<Text(<<"H", "i", SP>>), Strong(<<"b">>)>>,
                                 <<Text(<<"U+D55C">>), Em(<<"e">>), Br>>,
                                 <<Link(Href, <<Strong(<<"b">>)>>), Text(<<"*", "x", "*">>)>>,
                                 <<Image(Href, <<"a", "l", "t">>, Undefined), Codespan(<<"c">>)>>}}

\* The sources marker paragraph, and the same with its line end in raw
MarkerParagraph == RawParagraph(SourcesMarker, <<Strong(<<"U+CD9C", "U+CC98", ":">>)>>)
MarkerParagraphNL ==
  RawParagraph(SourcesMarker \o <<NL>>, <<Strong(<<"U+CD9C", "U+CC98", ":">>)>>)

ParagraphTokens ==
  {MarkerParagraph, MarkerParagraphNL}
    \cup {Paragraph(c) : c \in {<<Text(<<"a">>)>>,
                                <<Text(<<"a", NL, "b">>)>>,
                                <<Strong(<<"b">>), Text(<<SP, "c">>)>>,
                                <<Text(<<"*", "*", "*">>)>>,
                                <<Text(<<"s", "e", "e", SP>>), Link(Href, <<Em(<<"a">>)>>)>>,
                                <<Image(Href, <<"a", "l", "t">>, Undefined)>>,
                                <<Text(<<"a", "&", "b">>), Del(<<"d">>)>>}}

\* Paragraphs over text, strong, line break and image children, in every order
PhrasingChildren ==
  {Text(<<"a">>), Strong(<<"b">>), Br, Image(Href, <<"a", "l", "t">>, Undefined)}

PhrasingParagraphs == {Paragraph(c) : c \in SeqsOf(PhrasingChildren, 0, MaxChildren)}

LevelLetters == <<"a", "b", "c", "d", "e", "f">>
IndexLetters == <<"p", "q", "r", "s", "t", "u">>

\* the text of item k of a list at nesting level l
ItemName(l, k) == <<LevelLetters[l + 1], IndexLetters[k]>>

ItemKinds == {"text", "code", "para", "multi", "quote", "empty"}

\* the children of item k of a list at level l, before its nested list
ItemLeaf(kind, l, k) ==
  CASE kind = "text" -> <<TextBlock(<<Text(ItemName(l, k))>>)>>
    [] kind = "code" -> <<TextBlock(<<Text(ItemName(l, k))>>), Space, Code(<<"x", NL, "y">>)>>
    [] kind = "para" -> <<Paragraph(<<Text(ItemName(l, k))>>), Space>>
    [] kind = "multi" -> <<TextBlock(<<Text(ItemName(l, k) \o <<NL>> \o ItemName(l, k))>>)>>
    [] kind = "quote" ->
         <<TextBlock(<<Text(ItemName(l, k))>>),
           Blockquote(<<Paragraph(<<Text(<<"q">>)>>), Space, Paragraph(<<Text(<<"r">>)>>)>>)>>
    [] kind = "empty" -> <<>>

RECURSIVE MakeList(_, _, _, _, _, _)
\* A list at level l with n items; while l < D, item p holds the next level's list.
MakeList(l, D, ord, n, p, kind) ==
  List(ord[l],
       [k \in 1..n |->
          ListItem(ItemLeaf(kind, l, k)
                     \o (IF k = p /\ l < D
                         THEN <<MakeList(l + 1, D, ord, n, p, kind)>>
                         ELSE <<>>))])

ListTokens ==
  {MakeList(0, D, ord, n, p, kind) :
     D \in 0..MaxDepth, ord \in [0..MaxDepth -> BOOLEAN], n \in 1..MaxItems,
     p \in 1..MaxItems, kind \in ItemKinds}

\* A list whose items hold the sources marker as a paragraph
MarkerList ==
  List(TRUE, <<ListItem(<<MarkerParagraph>>), ListItem(<<TextBlock(<<Text(<<"x">>)>>)>>)>>)

SourcesList ==
  List(FALSE, <<ListItem(<<TextBlock(<<Text(<<"x">>)>>)>>),
                ListItem(<<TextBlock(<<Text(<<"y">>)>>)>>)>>)

CellKinds == {"text", "image", "styled"}

TableCell(kind, r, c) ==
  CASE kind = "text" -> Cell(<<Text(<<LevelLetters[r + 1], IndexLetters[c]>>)>>)
    [] kind = "image" ->
         Cell(<<Text(<<LevelLetters[r + 1]>>), Image(Href, <<"i">>, Undefined)>>)
    [] kind = "styled" -> Cell(<<Strong(<<IndexLetters[c]>>), Link(Href, <<Text(<<"a">>)>>)>>)

\* A table of C columns and R body rows; row 0 is the header
MakeTable(C, R, kind) ==
  Table([c \in 1..C |-> TableCell(kind, 0, c)],
        [r \in 1..R |-> [c \in 1..C |-> TableCell(kind, r, c)]])

TableTokens == {MakeTable(C, R, kind) : C \in 1..MaxCols, R \in 0..MaxRows, kind \in CellKinds}

ImgTag == [src |-> Href, alt |-> <<"a", "l", "t">>]
ImgTagNoAlt == [src |-> Href, alt |-> Undefined]
ImgTagNoSrc == [src |-> Undefined, alt |-> Undefined]

HtmlTokens ==
  {HtmlThrows(<<"<", "i", "m", "g">>),
   HtmlNoImg(<<"<", "b", ">", "x", "<", "/", "b", ">">>),
   HtmlImg(<<"<", "i", "m", "g", "/", ">">>, ImgTag),
   HtmlImg(<<"<", "i", "m", "g", "/", ">">>, ImgTagNoAlt),
   HtmlImg(<<"<", "i", "m", "g", "/", ">">>, ImgTagNoSrc),
   HtmlImgs(<<"<", "i", "m", "g", "/", ">", "<", "i", "m", "g", "/", ">">>,
            <<ImgTag, ImgTagNoAlt>>)}

BlockquoteTokens ==
  {Blockquote(<<Paragraph(<<Text(<<"q">>)>>)>>),
   Blockquote(<<Paragraph(<<Text(<<"q", NL, "r">>)>>), Space, Code(<<"x">>)>>),
   Blockquote(<<MarkerParagraph>>)}

\* The tokens mixed documents are made of
CoreTokens ==
  {MarkerParagraph, MarkerParagraphNL, Paragraph(<<Text(<<"a">>)>>), Space, SourcesList,
   Def, Hr, HtmlThrows(<<"<", "i", "m", "g">>), Blockquote(<<MarkerParagraph>>)}

\* One-token documents of every token the model builds
SingleTokens ==
  HeadingTokens \cup ParagraphTokens \cup PhrasingParagraphs \cup ListTokens \cup {MarkerList, SourcesList}
    \cup TableTokens \cup HtmlTokens \cup BlockquoteTokens
    \cup {Space, Def, Hr, Code(<<"x", NL, "y">>)}

Documents == SeqsOf(CoreTokens, 0, MaxTokens) \cup {<<t>> : t \in SingleTokens}

Init ==
  /\ variant \in {"permissive", "strict"}
  /\ tokens \in Documents
  /\ i = 0
  /\ resultBlocks = <<>>
  /\ pc = "loop"
  /\ lastOp = "init"
  /\ lastI = 0
  /\ prevBlocks = <<>>

Next ==
  \/ SourcesWithList
  \/ SourcesOnly
  \/ Dispatch
  \/ DispatchThrows
  \/ Return
  \/ FlatMapToken
  \/ FlatMapThrows
  \/ FlatMapReturn

Spec == Init /\ [][Next]_vars


(***************************************************************************)
(* Vocabulary of the properties.                                           *)
(***************************************************************************)
\* the last loop iteration's token, and the blocks it appended
lastToken == tokenAt(lastI)
newBlocks == SubSeq(resultBlocks, Len(prevBlocks) + 1, Len(resultBlocks))
appendedOnly == Len(resultBlocks) >= Len(prevBlocks)
                  /\ SubSeq(resultBlocks, 1, Len(prevBlocks)) = prevBlocks

ContainsSeq(s, sub) ==
  \E k \in 0..(Len(s) - Len(sub)) : SubSeq(s, k + 1, k + Len(sub)) = sub

\* the number of leading spaces of a line
LeadingSpaces(line) ==
  IF \A k \in 1..Len(line) : line[k] = SP THEN Len(line)
  ELSE (CHOOSE k \in 1..Len(line) : line[k] # SP /\ \A q \in 1..(k - 1) : line[q] = SP) - 1

DropSpaces(line) == SubSeq(line, LeadingSpaces(line) + 1, Len(line))

DigitSet == {Digits[k] : k \in 1..Len(Digits)}
DigitValue(c) == (CHOOSE k \in 1..Len(Digits) : Digits[k] = c) - 1

RECURSIVE NumberOf(_)
NumberOf(ds) ==
  IF ds = <<>> THEN 0 ELSE NumberOf(SubSeq(ds, 1, Len(ds) - 1)) * 10 + DigitValue(ds[Len(ds)])

\* The ordinal a line starts with ("12. x" gives 12), after its indent; 0 when none.
OrdinalOfLine(line) ==
  LET body == DropSpaces(line)
      n == IF \A k \in 1..Len(body) : body[k] \in DigitSet THEN Len(body)
           ELSE (CHOOSE k \in 1..Len(body) :
                   body[k] \notin DigitSet /\ \A q \in 1..(k - 1) : body[q] \in DigitSet) - 1
  IN IF n >= 1 /\ Len(body) >= n + 2 /\ body[n + 1] = "." /\ body[n + 2] = SP
     THEN NumberOf(SubSeq(body, 1, n))
     ELSE 0

\* The list the last iteration rendered at the top level, if it rendered one.
listFollows(k) ==
  typeAt(k + 1) = "list" \/ (typeAt(k + 1) = "space" /\ typeAt(k + 2) = "list")
followingList(k) == IF typeAt(k + 1) = "list" THEN k + 1 ELSE k + 2

renderedList ==
  \/ lastOp = "dispatch" /\ lastToken.type = "list"
  \/ lastOp = "sources_list"
theList == IF lastOp = "dispatch" THEN lastToken ELSE tokenAt(followingList(lastI))
\* the text of the Section the list became: the last block appended
theListText == resultBlocks[Len(resultBlocks)].text

(***************************************************************************)
(* C1: a sources-marker paragraph followed by a list, directly or after    *)
(* one space token, appends exactly Divider, Header(sources label) and the *)
(* one Section of that list at depth 0, and moves the cursor to the token  *)
(* after the list.                                                         *)
(***************************************************************************)
C1_SourcesUnit ==
  (variant = "permissive" /\ lastOp # "init" /\ atSourcesMarker(lastI) /\ listFollows(lastI)) =>
    /\ lastOp = "sources_list"
    /\ resultBlocks = prevBlocks \o <<divider, header(SourcesLabel),
                                      parseList(tokenAt(followingList(lastI)), 0)>>
    /\ i = followingList(lastI) + 1

\* The marker, a space and the two-item list [x, y] came out as three blocks.
C1_Witness ==
  /\ pc = "returned"
  /\ tokens = <<MarkerParagraphNL, Space, SourcesList>>
  /\ resultBlocks = <<divider, header(SourcesLabel),
                      section(<<Bullet, SP, "x", NL, Bullet, SP, "y">>)>>

(***************************************************************************)
(* C2: the sources marker is rendered by the assembler's rule only: no     *)
(* conversion emits the paragraph converter's bold label for it, at the    *)
(* top level, inside a blockquote or inside a list item.                   *)
(***************************************************************************)
C2_NoParagraphSpecialCase ==
  \A k \in 1..Len(resultBlocks) :
    resultBlocks[k].type = "section" => ~ContainsSeq(resultBlocks[k].text, SourcesBoldLabel)


(***************************************************************************)
(* Lists: vocabulary.                                                      *)
(***************************************************************************)
theListLines == Split(theListText, NL)

\* the lines of the text that start in column 0, in order
columnZeroLines == SelectSeq(theListLines, LAMBDA line : line = <<>> \/ line[1] # SP)

RECURSIVE SubLists(_, _)
\* Every list of the tree under `element`, paired with its nesting depth.
SubLists(element, depth) ==
  {<<element, depth>>}
    \cup UNION {UNION {SubLists(element.items[k].tokens[t], depth + 1) :
                         t \in {t \in 1..Len(element.items[k].tokens) :
                                  element.items[k].tokens[t].type = "list"}} :
                  k \in 1..Len(element.items)}

\* An item whose first child is a list shares its line with that list's first item.
startsWithList(element) ==
  \E sub \in SubLists(element, 0) :
    \E k \in 1..Len(sub[1].items) :
      Len(sub[1].items[k].tokens) > 0 /\ sub[1].items[k].tokens[1].type = "list"

RECURSIVE ExpectedOrdinals(_)
RECURSIVE ExpectedOrdinalsOfTokens(_)
\* The ordinals of the item lines, top to bottom, read off the token tree: item
\* k of an ordered list is numbered k, an unordered item 0, and the lists
\* nested in an item follow the item's own line.
ExpectedOrdinalsOfTokens(children) ==
  IF children = <<>> THEN <<>>
  ELSE (IF Head(children).type = "list" THEN ExpectedOrdinals(Head(children)) ELSE <<>>)
         \o ExpectedOrdinalsOfTokens(Tail(children))

ExpectedOrdinals(element) ==
  Concat([k \in 1..Len(element.items) |->
            <<IF element.ordered THEN k ELSE 0>>
              \o ExpectedOrdinalsOfTokens(element.items[k].tokens)])

\* the ordinals of the lines of a text that are item lines (ordinal or bullet)
isItemLine(line) ==
  OrdinalOfLine(line) > 0 \/ StartsWith(DropSpaces(line), <<Bullet, SP>>)
OrdinalsOfText(lines) ==
  LET itemLines == SelectSeq(lines, isItemLine)
  IN [k \in 1..Len(itemLines) |-> OrdinalOfLine(itemLines[k])]

(***************************************************************************)
(* C3, as stated: line k of the Section of an ordered list of N items      *)
(* begins with the ordinal k, for k = 1..N, whatever the items contain.    *)
(***************************************************************************)
C3_EveryLineOrdinal ==
  (renderedList /\ theList.ordered) =>
    LET lines == theListLines
    IN \A k \in 1..Len(theList.items) :
         /\ k <= Len(lines)
         /\ StartsWith(lines[k], Decimal(k) \o <<".", SP>>)

(***************************************************************************)
(* C3, amended: of the Section of an ordered top-level list of N items,    *)
(* exactly N lines start in column 0, the k-th of them begins with "k. ",  *)
(* and every other line (a continuation line, a line of a nested list)     *)
(* begins with a space.                                                    *)
(***************************************************************************)
C3_ItemLinesOrdinal ==
  (renderedList /\ theList.ordered) =>
    LET itemLines == columnZeroLines
    IN /\ Len(itemLines) = Len(theList.items)
       /\ \A k \in 1..Len(itemLines) : StartsWith(itemLines[k], Decimal(k) \o <<".", SP>>)

\* An ordered list whose first item has a nested list and a second item follows.
C3_Witness ==
  /\ renderedList
  /\ theList.ordered
  /\ Len(theList.items) = MaxItems
  /\ Len(theListLines) > Len(theList.items)
  /\ \E t \in 1..Len(theList.items[1].tokens) : theList.items[1].tokens[t].type = "list"

(***************************************************************************)
(* C4: the ordinal counter belongs to one list invocation: in every        *)
(* ordered list, at any depth, item k is numbered k; a nested ordered list *)
(* starts at 1 and the items after a nested list keep their numbers.       *)
(***************************************************************************)
C4_OrdinalPerList ==
  renderedList =>
    /\ \A sub \in SubLists(theList, 0) :
         sub[1].ordered =>
           LET contents == IF variant = "strict"
                           THEN listContents_internal(sub[1], sub[2], 1, 0)
                           ELSE listContents(sub[1], sub[2], 1, 0)
           IN \A k \in 1..Len(sub[1].items) :
                StartsWith(contents[k], listIndent(sub[2]) \o Decimal(k) \o <<".", SP>>)
    /\ ~startsWithList(theList) => OrdinalsOfText(theListLines) = ExpectedOrdinals(theList)

\* An ordered list nested in the first item of an ordered list with a later item.
C4_Witness ==
  /\ renderedList
  /\ theList.ordered
  /\ Len(theList.items) >= 2
  /\ \E t \in 1..Len(theList.items[1].tokens) :
       /\ theList.items[1].tokens[t].type = "list"
       /\ theList.items[1].tokens[t].ordered
       /\ Len(theList.items[1].tokens[t].items) >= 2
  /\ ~startsWithList(theList)
  /\ OrdinalsOfText(theListLines) = <<1, 1, 2, 2>>


(***************************************************************************)
(* C5: in the Section of a top-level list, the first line of an item of a  *)
(* list nested at depth 2 has exactly two indent units (2 x two spaces)    *)
(* more leading whitespace than the first line of a depth-0 item.          *)
(***************************************************************************)
IndentUnit == <<SP, SP>>

\* what follows the bullet or the ordinal of an item line
itemLineContent(line) ==
  LET body == DropSpaces(line)
  IN IF StartsWith(body, <<Bullet, SP>>) THEN SubSeq(body, 3, Len(body))
     ELSE SubSeq(body, Len(Decimal(OrdinalOfLine(line))) + 3, Len(body))

\* an item line of the list at nesting level l: its text is the item's name
lineAtLevel(line, l) ==
  /\ isItemLine(line)
  /\ itemLineContent(line) # <<>>
  /\ itemLineContent(line)[1] = LevelLetters[l + 1]

C5_IndentProportional ==
  renderedList =>
    LET lines == theListLines
    IN \A a, c \in 1..Len(lines) :
         (lineAtLevel(lines[a], 0) /\ lineAtLevel(lines[c], 2)) =>
           LeadingSpaces(lines[c]) - LeadingSpaces(lines[a]) = 2 * Len(IndentUnit)

(***************************************************************************)
(* C6: a top-level list yields exactly one Section, whatever its items and *)
(* nesting: nested lists are lines of the parent item, never a block of    *)
(* their own, and the text is the item strings joined by single newlines   *)
(* in item order.                                                          *)
(***************************************************************************)
\* the blocks the list contributed
theListBlocks ==
  IF lastOp = "dispatch" THEN newBlocks ELSE SubSeq(newBlocks, 3, Len(newBlocks))

\* The first line of an item's own text, read off its source, when the item
\* starts with one plain run of text (no character a converter rewrites).
firstLineOfItem(item) ==
  IF /\ Len(item.tokens) > 0
     /\ item.tokens[1].type \in {"text", "paragraph"}
     /\ Len(item.tokens[1].tokens) = 1
     /\ item.tokens[1].tokens[1].type = "text"
     /\ \A k \in 1..Len(item.tokens[1].raw) :
          item.tokens[1].raw[k] \notin {"*", "_", "~", "&", "<", ">"}
  THEN Split(item.tokens[1].raw, NL)[1]
  ELSE <<>>

C6_OneSection ==
  renderedList =>
    /\ appendedOnly
    /\ Len(theListBlocks) = 1
    /\ theListBlocks[1].type = "section"
    /\ LET lines == theListLines
           itemLines == SelectSeq(lines, LAMBDA line : line = <<>> \/ line[1] # SP)
       IN /\ \A k \in 1..Len(lines) : lines[k] # <<>>
          /\ Len(itemLines) = Len(theList.items)
          /\ \A k \in 1..Len(itemLines) :
               /\ isItemLine(itemLines[k])
               /\ StartsWith(itemLineContent(itemLines[k]), firstLineOfItem(theList.items[k]))

\* A list with a list nested two levels deep became one block of several lines.
C6_Witness ==
  /\ lastOp = "dispatch"
  /\ lastToken.type = "list"
  /\ Len(lastToken.items) = MaxItems
  /\ \E sub \in SubLists(lastToken, 0) : sub[2] = MaxDepth
  /\ Len(newBlocks) = 1
  /\ Len(theListLines) > MaxItems + MaxDepth

(***************************************************************************)
(* C7: the grid of a table with a header of C cells and R body rows, R = 0 *)
(* included, has exactly one separator line of C '---' cells right after   *)
(* the header line, so R + 2 grid lines inside the fence.                  *)
(***************************************************************************)
\* '| --- | --- |' with C cells
separatorLine(C) == combineBetweenPipes([c \in 1..C |-> <<"-", "-", "-">>])

\* the lines between the opening and the closing fence
gridLines(text) ==
  LET lines == Split(text, NL) IN SubSeq(lines, 2, Len(lines) - 1)

C7_SeparatorAfterHeader ==
  (lastOp = "dispatch" /\ lastToken.type = "table") =>
    LET grid == gridLines(resultBlocks[Len(resultBlocks)].text)
    IN /\ Len(grid) = Len(lastToken.rows) + 2
       /\ grid[2] = separatorLine(Len(lastToken.header))
       /\ \A k \in 1..Len(grid) : k # 2 => grid[k] # separatorLine(Len(lastToken.header))

(***************************************************************************)
(* C8: when the XML parse of a raw-HTML token fails, parseHTML returns     *)
(* zero blocks and the failure is not propagated: the conversion goes on   *)
(* with the next token.                                                    *)
(***************************************************************************)
C8_HtmlFailureContained ==
  (lastOp # "init" /\ lastToken.type = "html" /\ lastToken.xml.throws) =>
    /\ pc # "threw"
    /\ resultBlocks = prevBlocks
    /\ i = lastI + 1

(***************************************************************************)
(* C9: a top-level token of an unrecognized kind contributes zero blocks   *)
(* and does not stop the conversion: the output is that of the same        *)
(* document without its unrecognized tokens.                               *)
(***************************************************************************)
RecognizedTypes ==
  {"heading", "paragraph", "code", "blockquote", "list", "table", "hr", "html"}

recognizedTokens(toks) == SelectSeq(toks, LAMBDA t : t.type \in RecognizedTypes)

C9_UnrecognizedSkipped ==
  /\ (lastOp # "init" /\ lastToken.type \notin RecognizedTypes) =>
       /\ lastOp = "dispatch"
       /\ pc # "threw"
       /\ resultBlocks = prevBlocks
       /\ i = lastI + 1
  /\ (variant = "permissive" /\ pc = "returned") =>
       resultBlocks = parseBlocksFrom(recognizedTokens(tokens), 0)
  /\ pc = "threw" => parseBlocksThrows(recognizedTokens(tokens))

\* An unrecognized token between the marker and its list: the run returned.
C9_Witness ==
  /\ variant = "permissive"
  /\ pc = "returned"
  /\ tokens = <<MarkerParagraph, Def, SourcesList>>
  /\ Len(resultBlocks) = Len(tokens)

(***************************************************************************)
(* C10: a link rendered by parseMrkdwn is exactly '<' href '|' text '>',   *)
(* nothing before or after, and text holds no unescaped '<', '>' or '&',   *)
(* whatever phrasing children the link has.                                *)
(***************************************************************************)
Entities == {<<"&", "a", "m", "p", ";">>, <<"&", "l", "t", ";">>, <<"&", "g", "t", ";">>}

noUnescaped(s) ==
  \A k \in 1..Len(s) :
    /\ s[k] \notin {"<", ">"}
    /\ s[k] = "&" => \E e \in Entities : k + Len(e) - 1 <= Len(s) /\ SubSeq(s, k, k + Len(e) - 1) = e

linkWellFormed(text, href) ==
  LET open == <<"<">> \o href \o <<"|">>
  IN /\ StartsWith(text, open)
     /\ Len(text) > Len(open)
     /\ text[Len(text)] = ">"
     /\ noUnescaped(SubSeq(text, Len(open) + 1, Len(text) - 1))

\* a depth-2 heading whose only child is a link: its Header text is the link
isLinkHeading(token) ==
  /\ token.type = "heading"
  /\ token.depth = 2
  /\ Len(token.tokens) = 1
  /\ token.tokens[1].type = "link"

\* the link as rendered: the Header text, or the Section text inside its bold markers
renderedLink ==
  LET text == resultBlocks[Len(resultBlocks)].text
  IN IF variant = "strict" THEN SubSeq(text, 2, Len(text) - 1) ELSE text

C10_LinkWellFormed ==
  (lastOp = "dispatch" /\ isLinkHeading(lastToken)) =>
    linkWellFormed(renderedLink, lastToken.tokens[1].href)

(***************************************************************************)
(* C11: for a paragraph that is not the sources marker, parseParagraph     *)
(* returns zero blocks when the concatenated child text is empty once the  *)
(* emphasis and strikethrough marker characters are removed, and otherwise *)
(* exactly one Section holding that stripped text; never more than one     *)
(* block.                                                                  *)
(***************************************************************************)
FormatMarkers == {"*", "_", "~"}

\* the text of one child with every marker character left out
strippedChildText(token) ==
  SelectSeq(paragraphChildText(token), LAMBDA c : c \notin FormatMarkers)

\* the stripped texts of the children, in order
strippedText(element) ==
  Concat([k \in 1..Len(element.tokens) |-> strippedChildText(element.tokens[k])])

plainParagraphDispatched ==
  /\ variant = "permissive"
  /\ lastOp = "dispatch"
  /\ lastToken.type = "paragraph"
  /\ ~isSourcesMarker(lastToken)

C11_ParagraphZeroOrOne ==
  plainParagraphDispatched =>
    LET text == strippedText(lastToken)
    IN /\ appendedOnly
       /\ Len(newBlocks) <= 1
       /\ text = <<>> => newBlocks = <<>>
       /\ text # <<>> => newBlocks = <<section(text)>>
       /\ \A k \in 1..Len(newBlocks) :
            \A c \in 1..Len(newBlocks[k].text) : newBlocks[k].text[c] \notin FormatMarkers

\* a paragraph made of marker characters only was dispatched and gave no block
C11_Witness ==
  /\ plainParagraphDispatched
  /\ lastToken.tokens # <<>>
  /\ \E k \in 1..Len(lastToken.tokens) : lastToken.tokens[k].raw # <<>>
  /\ strippedText(lastToken) = <<>>
  /\ newBlocks = <<>>
  /\ i = lastI + 1

(***************************************************************************)
(* C12: in the fold of parseParagraph over parsePhrasingContent and        *)
(* addMrkdwn, the accumulator never holds two adjacent Sections after any  *)
(* step; the text of a child that is not an image is concatenated onto the *)
(* last block when that block is a Section, and opens a new Section only   *)
(* when the accumulator is empty or ends with an Image; an image child     *)
(* adds exactly one Image block; the order of the children is kept.        *)
(***************************************************************************)
\* the accumulator after the first k children of the paragraph
accumulatorAfter(element, k) ==
  reducePhrasing_internal(SubSeq(element.tokens, 1, k), 1, <<>>)

noAdjacentSections(blocks) ==
  \A k \in 1..Len(blocks) - 1 :
    ~(blocks[k].type = "section" /\ blocks[k + 1].type = "section")

endsWithSection(blocks) == blocks # <<>> /\ blocks[Len(blocks)].type = "section"

\* before is after without its last block
oneBlockAdded(before, after) ==
  Len(after) = Len(before) + 1 /\ SubSeq(after, 1, Len(before)) = before

\* after is before with text appended to the text of its last block
mergedIntoLast(before, after, text) ==
  /\ Len(after) = Len(before)
  /\ SubSeq(after, 1, Len(before) - 1) = SubSeq(before, 1, Len(before) - 1)
  /\ after[Len(after)].type = "section"
  /\ after[Len(after)].text = before[Len(before)].text \o text

mergeStep(child, before, after) ==
  /\ noAdjacentSections(after)
  /\ child.type = "image" =>
       /\ oneBlockAdded(before, after)
       /\ after[Len(after)].type = "image"
       /\ after[Len(after)].image_url = child.href
  /\ child.type # "image" =>
       IF endsWithSection(before)
       THEN mergedIntoLast(before, after, parseMrkdwn_internal(child))
       ELSE /\ oneBlockAdded(before, after)
            /\ after[Len(after)] = section(parseMrkdwn_internal(child))

foldedParagraphDispatched ==
  variant = "strict" /\ lastOp = "dispatch" /\ lastToken.type = "paragraph"

C12_MergeRule ==
  foldedParagraphDispatched =>
    /\ appendedOnly
    /\ newBlocks = accumulatorAfter(lastToken, Len(lastToken.tokens))
    /\ \A k \in 1..Len(lastToken.tokens) :
         mergeStep(lastToken.tokens[k], accumulatorAfter(lastToken, k - 1),
                   accumulatorAfter(lastToken, k))
    /\ Cardinality({k \in 1..Len(newBlocks) : newBlocks[k].type = "image"})
         = Cardinality({k \in 1..Len(lastToken.tokens) : lastToken.tokens[k].type = "image"})

\* two texts merged into one Section, then an Image, then a new Section
C12_Witness ==
  /\ foldedParagraphDispatched
  /\ Len(lastToken.tokens) = 4
  /\ lastToken.tokens[3].type = "image"
  /\ Len(newBlocks) = 3
  /\ newBlocks[1].type = "section"
  /\ newBlocks[2].type = "image"
  /\ newBlocks[3].type = "section"

(***************************************************************************)
(* C13: the cursor of parseBlocks strictly increases on every loop         *)
(* iteration and the loop ends with every top-level token consumed exactly *)
(* once, by the default dispatch or as part of a sources unit; a sources   *)
(* marker that no list follows advances the cursor by exactly one, so the  *)
(* next token is dispatched by the default rule; the blocks of an earlier  *)
(* token precede the blocks of a later one.                                *)
(***************************************************************************)
\* the tokens an iteration consumed: those from lastI up to the cursor
consumedByLast == i - lastI

C13_CursorAdvances ==
  variant = "permissive" =>
    /\ i <= Len(tokens)
    /\ lastOp # "init" => i > lastI
    /\ lastOp = "dispatch" => consumedByLast = 1
    /\ lastOp = "sources_only" => consumedByLast = 1
    /\ lastOp = "sources_list" =>
         /\ i = followingList(lastI) + 1
         /\ consumedByLast \in {2, 3}
    /\ pc # "loop" => i = Len(tokens)
    /\ appendedOnly

====
